---- MODULE Spec2Model ----
(***************************************************************************)
(* Model of the data-analysis pipeline of backend/agents: the LangGraph    *)
(* workflow of graph.py, the six nodes of nodes.py and the request handler *)
(* analyze_dataset of main.py.                                             *)
(*                                                                         *)
(* A DataFrame is a record [columns, dtypes, index, data]: data[i] is the  *)
(* i-th row (a sequence of cells), index[i] its pandas index label.        *)
(* A cell is NaN, a number or a text.  Numbers are held in halves          *)
(* (n = 2 * value) so that the median of integer inputs is exact; a text   *)
(* is the sequence of its characters.                                      *)
(***************************************************************************)
EXTENDS Integers, Sequences, FiniteSets, TLC

VARIABLES
    file,       \* the uploaded file of the dataset under analysis
    pc,         \* "start", the node the graph runs next, "END", or "done"
    state,      \* the channels of the LangGraph run (AgentState)
    analysis,   \* the Analysis record and its Visualization rows
    response,   \* the HTTP status analyze_dataset answers with, 0 before
    executed,   \* the nodes run so far, in order
    raised,     \* the nodes that ended in their except block with an error
    faults,     \* the number of exceptions the environment has raised
    llm_result, \* how llm.invoke ended: "none" before the call
    clock,      \* the wall clock, in seconds
    datasets,   \* the Dataset rows, in the order of their ids
    disk,       \* the files on disk: pairs of a path and its content
    written,    \* every write to a path, with the dataset it was made for
    reports     \* the cleaning report of each dataset's run

upload_vars == <<clock, datasets, disk, written, reports>>

vars == <<file, pc, state, analysis, response, executed, raised, faults,
          llm_result, clock, datasets, disk, written, reports>>

(***************************************************************************)
(* Bounds of the model.                                                    *)
(***************************************************************************)
MaxRows == 2
MaxFaults == 1
\* seconds the clock advances
MaxClock == 1
\* uploads in one behaviour
MaxUploads == 2

(***************************************************************************)
(* Cells.                                                                  *)
(***************************************************************************)
NaN == [k |-> "nan", n |-> 0, s |-> <<>>]
Half(h) == [k |-> "num", n |-> h, s |-> <<>>]
Num(v) == Half(2 * v)
Str(s) == [k |-> "str", n |-> 0, s |-> s]
Bool(b) == [k |-> "bool", n |-> (IF b THEN 1 ELSE 0), s |-> <<>>]

isna(c) == c.k = "nan"
isstr(c) == c.k = "str"
isbool(c) == c.k = "bool"

(***************************************************************************)
(* Text: str.strip, str.lower, and the ordering of Python strings.         *)
(***************************************************************************)
ASCII == <<" ", "+", "-",
           "0", "1", "2", "3", "4", "5", "6", "7", "8", "9",
           "A", "B", "C", "D", "E", "F", "G", "H", "I", "J", "K", "L", "M",
           "N", "O", "P", "Q", "R", "S", "T", "U", "V", "W", "X", "Y", "Z",
           "a", "b", "c", "d", "e", "f", "g", "h", "i", "j", "k", "l", "m",
           "n", "o", "p", "q", "r", "s", "t", "u", "v", "w", "x", "y", "z">>

ord(c) == CHOOSE i \in 1..Len(ASCII) : ASCII[i] = c

IsSpace(c) == c = " "
IsDigit(c) == ord(c) \in ord("0")..ord("9")
IsUpper(c) == ord(c) \in ord("A")..ord("Z")

RECURSIVE lstrip(_)
lstrip(s) == IF s # <<>> /\ IsSpace(Head(s)) THEN lstrip(Tail(s)) ELSE s

RECURSIVE rstrip(_)
rstrip(s) ==
    IF s # <<>> /\ IsSpace(s[Len(s)]) THEN rstrip(SubSeq(s, 1, Len(s) - 1)) ELSE s

strip(s) == rstrip(lstrip(s))

lower(s) ==
    [i \in 1..Len(s) |->
        IF IsUpper(s[i]) THEN ASCII[ord(s[i]) + (ord("a") - ord("A"))] ELSE s[i]]

RECURSIVE str_lt(_, _)
str_lt(a, b) ==
    IF b = <<>> THEN FALSE
    ELSE IF a = <<>> THEN TRUE
    ELSE IF Head(a) = Head(b) THEN str_lt(Tail(a), Tail(b))
    ELSE ord(Head(a)) < ord(Head(b))

(***************************************************************************)
(* pd.to_numeric(..., errors='coerce') on one cell: a number stays, a text *)
(* that is an integer literal parses, anything else becomes NaN.           *)
(***************************************************************************)
RECURSIVE ParseDigits(_, _)
ParseDigits(s, acc) ==
    IF s = <<>> THEN acc
    ELSE ParseDigits(Tail(s), 10 * acc + (ord(Head(s)) - ord("0")))

Unsigned(s) == IF s # <<>> /\ Head(s) \in {"-", "+"} THEN Tail(s) ELSE s

LooksNumeric(s) ==
    /\ Unsigned(s) # <<>>
    /\ \A i \in 1..Len(Unsigned(s)) : IsDigit(Unsigned(s)[i])

to_numeric(c) ==
    IF ~isstr(c) THEN c
    ELSE IF ~LooksNumeric(strip(c.s)) THEN NaN
    ELSE IF Head(strip(c.s)) = "-" THEN Num(0 - ParseDigits(Unsigned(strip(c.s)), 0))
    ELSE Num(ParseDigits(Unsigned(strip(c.s)), 0))

(***************************************************************************)
(* DataFrame helpers.                                                      *)
(***************************************************************************)
nrows(df) == Len(df.data)
ncols(df) == Len(df.columns)
Rows(df) == 1..nrows(df)
Cols(df) == 1..ncols(df)

column(df, j) == [i \in Rows(df) |-> df.data[i][j]]

HasColumn(df, name) == \E j \in Cols(df) : df.columns[j] = name
col_of(df, name) == CHOOSE j \in Cols(df) : df.columns[j] = name

IsNumericDtype(t) == t \in {"float64", "int64"}
numeric_cols(df) == {j \in Cols(df) : IsNumericDtype(df.dtypes[j])}
object_cols(df) == {j \in Cols(df) : df.dtypes[j] = "object"}

RECURSIVE Ascending(_)
Ascending(I) ==
    IF I = {} THEN <<>>
    ELSE LET m == CHOOSE x \in I : \A y \in I : x <= y
         IN  <<m>> \o Ascending(I \ {m})

\* df[mask]: the rows at the positions I, in order, with their index labels
take(df, I) ==
    LET p == Ascending(I)
    IN  [df EXCEPT !.index = [i \in 1..Len(p) |-> df.index[p[i]]],
                   !.data  = [i \in 1..Len(p) |-> df.data[p[i]]]]

index_of(df, I) ==
    LET p == Ascending(I) IN [i \in 1..Len(p) |-> df.index[p[i]]]

notna_values(cells) ==
    LET keep(c) == ~isna(c)
        kept == SelectSeq(cells, keep)
    IN  [i \in 1..Len(kept) |-> kept[i].n]

RECURSIVE sort_values(_)
sort_values(v) ==
    IF v = <<>> THEN <<>>
    ELSE LET rest == sort_values(Tail(v))
             k == Cardinality({i \in 1..Len(rest) : rest[i] < Head(v)})
         IN  SubSeq(rest, 1, k) \o <<Head(v)>> \o SubSeq(rest, k + 1, Len(rest))

\* Series.median(): NaN cells are skipped, an empty series has median NaN
median(cells) ==
    LET v == sort_values(notna_values(cells))
        n == Len(v)
    IN  IF n = 0 THEN NaN
        ELSE IF n % 2 = 1 THEN Half(v[(n + 1) \div 2])
        ELSE Half((v[n \div 2] + v[n \div 2 + 1]) \div 2)

\* Series.mode()[0], or 'Unknown' when the mode is empty
Unknown == Str(<<"U", "n", "k", "n", "o", "w", "n">>)

mode_val(cells) ==
    LET vals == {cells[i] : i \in {k \in 1..Len(cells) : ~isna(cells[k])}}
        count(v) == Cardinality({i \in 1..Len(cells) : cells[i] = v})
        top == {v \in vals : \A w \in vals : count(w) <= count(v)}
    IN  IF vals = {} THEN Unknown
        ELSE CHOOSE v \in top : \A w \in top : w = v \/ str_lt(v.s, w.s)

(***************************************************************************)
(* The Loader: pd.read_csv / pd.read_excel.  A file is a record            *)
(* [name, ext, columns, grid]; grid is the sequence of its data rows.      *)
(* Column types are inferred from the cells: a column holding a text is    *)
(* 'object', a column of numbers is int64, or float64 when a cell is       *)
(* empty; the columns of a file without data rows are 'object'.            *)
(***************************************************************************)
infer_dtype(cells) ==
    IF Len(cells) = 0 THEN "object"
    ELSE IF \E i \in 1..Len(cells) : isstr(cells[i]) THEN "object"
    ELSE IF \A i \in 1..Len(cells) : isbool(cells[i]) THEN "bool"
    ELSE IF \E i \in 1..Len(cells) : isbool(cells[i]) THEN "object"
    ELSE IF \E i \in 1..Len(cells) : isna(cells[i]) THEN "float64"
    ELSE "int64"

read_table(f) ==
    [columns |-> f.columns,
     dtypes  |-> [j \in 1..Len(f.columns) |->
                     infer_dtype([i \in 1..Len(f.grid) |-> f.grid[i][j]])],
     index   |-> [i \in 1..Len(f.grid) |-> i - 1],
     data    |-> f.grid]

read_csv(f) == read_table(f)
read_excel(f) == read_table(f)

load_data(f) == IF f.ext = "csv" THEN read_csv(f) ELSE read_excel(f)

\* read_csv raises on the bytes of a workbook; read_excel finds the format
\* in the content of the file and raises on a file that is no workbook
load_raises(f) ==
    IF f.ext = "csv" THEN f.format # "text" ELSE f.format # "workbook"

(***************************************************************************)
(* The Cleaner's steps (clean_data_node, steps 1 to 5).                    *)
(***************************************************************************)
\* 1. df.dropna(how='all')
dropna_all(df) ==
    take(df, {i \in Rows(df) : \E j \in Cols(df) : ~isna(df.data[i][j])})

\* 2. df.applymap(lambda x: x.strip() if isinstance(x, str) else x)
applymap_strip(df) ==
    [df EXCEPT !.data =
        [i \in Rows(df) |-> [j \in Cols(df) |->
            IF isstr(df.data[i][j]) THEN Str(strip(df.data[i][j].s))
            ELSE df.data[i][j]]]]

\* 3. object columns with at least one parsing cell become numeric
numeric_series(df, j) == [i \in Rows(df) |-> to_numeric(df.data[i][j])]

\* the column replaced only when more than half of its cells parse
is_coerced_majority(df, j) ==
    /\ df.dtypes[j] = "object"
    /\ 2 * Cardinality({i \in Rows(df) : ~isna(to_numeric(df.data[i][j]))}) > nrows(df)

is_coerced(df, j) ==
    /\ df.dtypes[j] = "object"
    /\ \E i \in Rows(df) : ~isna(numeric_series(df, j)[i])

coerce_numeric(df) ==
    [df EXCEPT
        !.dtypes = [j \in Cols(df) |->
            IF is_coerced(df, j)
            THEN (IF \E i \in Rows(df) : isna(numeric_series(df, j)[i])
                  THEN "float64" ELSE "int64")
            ELSE df.dtypes[j]],
        !.data = [i \in Rows(df) |-> [j \in Cols(df) |->
            IF is_coerced(df, j) THEN numeric_series(df, j)[i]
            ELSE df.data[i][j]]]]

\* df.duplicated(): positions of the rows equal to an earlier row
duplicated(df) ==
    {i \in Rows(df) : \E k \in 1..(i - 1) : df.data[k] = df.data[i]}

\* df.duplicated(keep=False): positions of the rows equal to another row
duplicated_keep_false(df) ==
    {i \in Rows(df) : \E k \in Rows(df) : k # i /\ df.data[k] = df.data[i]}

\* drop_duplicates followed by reset_index(drop=True): labels renumbered
drop_duplicates_reset_index(df) ==
    LET kept == take(df, Rows(df) \ duplicated(df))
    IN  [kept EXCEPT !.index = [i \in 1..Len(kept.data) |-> i - 1]]

\* drop_duplicates(keep=False): every row that has an equal row is dropped
drop_duplicates_keep_false(df) == take(df, Rows(df) \ duplicated_keep_false(df))

\* 4. df.drop_duplicates(): first occurrences, index labels kept
drop_duplicates(df) == take(df, Rows(df) \ duplicated(df))

isnull_sum(df) ==
    [c \in {df.columns[j] : j \in Cols(df)} |->
        Cardinality({i \in Rows(df) : isna(df.data[i][col_of(df, c)])})]

dtypes_dict(df) ==
    [c \in {df.columns[j] : j \in Cols(df)} |-> df.dtypes[col_of(df, c)]]

shape(df) == <<nrows(df), ncols(df)>>

\* 5. fillna: the median for float64/int64 columns, the mode otherwise
fill_value(df, j) ==
    IF IsNumericDtype(df.dtypes[j]) THEN median(column(df, j))
    ELSE mode_val(column(df, j))

fillna_columns(df) ==
    [df EXCEPT !.data = [i \in Rows(df) |-> [j \in Cols(df) |->
        IF isna(df.data[i][j]) THEN fill_value(df, j) ELSE df.data[i][j]]]]

\* the table the report describes: after steps 1 to 3
prepare(raw) == coerce_numeric(applymap_strip(dropna_all(raw)))

cleaned_of(raw) == fillna_columns(drop_duplicates(prepare(raw)))

rows_removed_of(df, df_cleaned) == nrows(df) - nrows(df_cleaned)

\* the report with original_shape taken before the empty rows are dropped
cleaning_report_of_raw_shape(raw, cleaned_filename) ==
    LET df == prepare(raw)
        df_cleaned == cleaned_of(raw)
    IN  [original_shape    |-> shape(raw),
         missing_values    |-> isnull_sum(df),
         duplicates        |-> Cardinality(duplicated(df)),
         data_types        |-> dtypes_dict(df),
         cleaned_shape     |-> shape(df_cleaned),
         rows_removed      |-> rows_removed_of(df, df_cleaned),
         cleaned_file_path |-> cleaned_filename]

\* the report with its counts and types taken from the cleaned table
cleaning_report_of_after_cleaning(raw, cleaned_filename) ==
    LET df == prepare(raw)
        df_cleaned == cleaned_of(raw)
    IN  [original_shape    |-> shape(df),
         missing_values    |-> isnull_sum(df_cleaned),
         duplicates        |-> Cardinality(duplicated(df_cleaned)),
         data_types        |-> dtypes_dict(df_cleaned),
         cleaned_shape     |-> shape(df_cleaned),
         rows_removed      |-> rows_removed_of(df, df_cleaned),
         cleaned_file_path |-> cleaned_filename]

cleaning_report_of(raw, cleaned_filename) ==
    LET df == prepare(raw)
        df_cleaned == cleaned_of(raw)
    IN  [original_shape    |-> shape(df),
         missing_values    |-> isnull_sum(df),
         duplicates        |-> Cardinality(duplicated(df)),
         data_types        |-> dtypes_dict(df),
         cleaned_shape     |-> shape(df_cleaned),
         rows_removed      |-> rows_removed_of(df, df_cleaned),
         cleaned_file_path |-> cleaned_filename]

(***************************************************************************)
(* The Statistics Summarizer's report (generate_statistics_node).          *)
(***************************************************************************)
names_of(df, J) == {df.columns[j] : j \in J}

\* a finite float whose value is not modelled
Finite == [k |-> "finite", n |-> 0, s |-> <<>>]

\* the null of the stored report (None)
None == [k |-> "none", n |-> 0, s |-> <<>>]

\* float(obj) of a NumPy float: the same number, and nan for nan
convert_numpy(c) == c

\* count, mean, std, min and max of describe(): the mean of no value and
\* the standard deviation (ddof = 1) of fewer than two values are nan
describe(df, c) ==
    LET v == sort_values(notna_values(column(df, col_of(df, c))))
    IN  [count |-> Len(v),
         mean  |-> convert_numpy(IF Len(v) = 0 THEN NaN ELSE Finite),
         std   |-> convert_numpy(IF Len(v) < 2 THEN NaN ELSE Finite),
         min   |-> convert_numpy(IF Len(v) = 0 THEN NaN ELSE Half(v[1])),
         max   |-> convert_numpy(IF Len(v) = 0 THEN NaN ELSE Half(v[Len(v)]))]

\* the rows where both columns hold a value
complete_pairs(df, a, b) ==
    {i \in Rows(df) : ~isna(df.data[i][a]) /\ ~isna(df.data[i][b])}

\* whether column j varies over the rows I
varies(df, j, I) == Cardinality({df.data[i][j].n : i \in I}) > 1

\* one entry of DataFrame.corr(): Pearson's coefficient over the complete
\* pairs, nan when a column does not vary over them (0 / 0)
corr(df, a, b) ==
    LET I == complete_pairs(df, a, b)
    IN  IF varies(df, a, I) /\ varies(df, b, I) THEN Finite ELSE NaN

correlations_of(df) ==
    IF Cardinality(numeric_cols(df)) > 1
    THEN [a \in names_of(df, numeric_cols(df)) |->
            [b \in names_of(df, numeric_cols(df)) |->
                convert_numpy(corr(df, col_of(df, a), col_of(df, b)))]]
    ELSE [a \in {} |-> None]

nunique(cells) == Cardinality({cells[i] : i \in {k \in 1..Len(cells) : ~isna(cells[k])}})

\* value_counts().head(5): the values in the order they are first seen,
\* sorted by falling count (ties keep the first-seen order), five at most
top_values(cells) ==
    LET seen == {i \in 1..Len(cells) :
                    /\ ~isna(cells[i])
                    /\ \A k \in 1..(i - 1) : cells[k] # cells[i]}
        count(i) == Cardinality({k \in 1..Len(cells) : cells[k] = cells[i]})
        rank(i) == Cardinality({k \in seen :
                        \/ count(k) > count(i)
                        \/ count(k) = count(i) /\ k < i})
        n == IF Cardinality(seen) < 5 THEN Cardinality(seen) ELSE 5
    IN  [r \in 1..n |->
            LET i == CHOOSE k \in seen : rank(k) = r - 1
            IN  [value |-> cells[i], count |-> count(i)]]

statistics_of(df) ==
    [shape |-> shape(df),
     columns |-> df.columns,
     numeric_summary |->
        [c \in names_of(df, numeric_cols(df)) |-> describe(df, c)],
     categorical_summary |->
        [c \in names_of(df, object_cols(df)) |->
            [unique_values |-> nunique(column(df, col_of(df, c))),
             top_values |-> top_values(column(df, col_of(df, c)))]],
     correlations |-> correlations_of(df)]

(***************************************************************************)
(* The Anomaly Detector's checks (detect_anomalies_node).                  *)
(***************************************************************************)
\* 1. missing values: columns with at least one null
missing_census(df) ==
    LET all == isnull_sum(df)
    IN  [c \in {d \in DOMAIN all : all[d] > 0} |-> all[c]]

\* 3. cells holding a sentinel text
SENTINELS == {<<"n", "a", "n">>, <<"n", "u", "l", "l">>, <<>>, <<"n", "o", "n", "e">>}

is_invalid(c) == isstr(c) /\ lower(strip(c.s)) \in SENTINELS

invalid_mask(df, j) == {i \in Rows(df) : is_invalid(df.data[i][j])}

invalid_values_of(df) ==
    [c \in names_of(df, {j \in Cols(df) : invalid_mask(df, j) # {}}) |->
        LET p == Ascending(invalid_mask(df, col_of(df, c)))
        IN  [i \in 1..Len(p) |-> df.data[p[i]][col_of(df, c)]]]

\* 4. IQR outliers.  quantile4(v, q4) is four times the q4/4 quantile of
\* the sorted values v, by linear interpolation.
quantile4(v, q4) ==
    LET h == q4 * (Len(v) - 1)
        lo == h \div 4 + 1
        r == h % 4
    IN  IF r = 0 THEN 4 * v[lo] ELSE (4 - r) * v[lo] + r * v[lo + 1]

\* the fences with the signs of the multiplier exchanged
outlier_mask_k_inward(df, j, k) ==
    LET v == sort_values(notna_values(column(df, j)))
        Q1 == quantile4(v, 1)
        Q3 == quantile4(v, 3)
        IQR == Q3 - Q1
    IN  IF Len(v) = 0 THEN {}
        ELSE {i \in Rows(df) :
                /\ ~isna(df.data[i][j])
                /\ \/ 8 * df.data[i][j].n < 2 * Q1 + k * IQR
                   \/ 8 * df.data[i][j].n > 2 * Q3 - k * IQR}

\* the fences with <= and >= in place of < and >
outlier_mask_k_inclusive(df, j, k) ==
    LET v == sort_values(notna_values(column(df, j)))
        Q1 == quantile4(v, 1)
        Q3 == quantile4(v, 3)
        IQR == Q3 - Q1
    IN  IF Len(v) = 0 THEN {}
        ELSE {i \in Rows(df) :
                /\ ~isna(df.data[i][j])
                /\ \/ 8 * df.data[i][j].n <= 2 * Q1 - k * IQR
                   \/ 8 * df.data[i][j].n >= 2 * Q3 + k * IQR}

\* the rows outside the fences Q1 - (k/2) * IQR and Q3 + (k/2) * IQR: the
\* multiplier k is given in halves
outlier_mask_k(df, j, k) ==
    LET v == sort_values(notna_values(column(df, j)))
        Q1 == quantile4(v, 1)
        Q3 == quantile4(v, 3)
        IQR == Q3 - Q1
    IN  IF Len(v) = 0 THEN {}
        ELSE {i \in Rows(df) :
                /\ ~isna(df.data[i][j])
                /\ \/ 8 * df.data[i][j].n < 2 * Q1 - k * IQR
                   \/ 8 * df.data[i][j].n > 2 * Q3 + k * IQR}

\* the multiplier 1.5 of the code, in halves
IQR_MULTIPLIER == 3

outlier_mask(df, j) == outlier_mask_k(df, j, IQR_MULTIPLIER)

\* round(count / len * 100, 2), in hundredths of a percent
percentage(count, len) == (2 * 10000 * count + len) \div (2 * len)

outliers_of(df) ==
    [c \in names_of(df, {j \in numeric_cols(df) : outlier_mask(df, j) # {}}) |->
        LET p == Ascending(outlier_mask(df, col_of(df, c)))
        IN  [count |-> Len(p),
             percentage |-> percentage(Len(p), nrows(df)),
             values |-> [i \in 1..(IF Len(p) < 10 THEN Len(p) ELSE 10) |->
                            df.data[p[i]][col_of(df, c)]]]]

\* 5. domain rules.  A key of domain_anomalies is [rule, col]: col is the
\* column of a negative_<col> key and empty for the named rules.
Rule(name) == [rule |-> name, col |-> ""]
Negative(c) == [rule |-> "negative", col |-> c]

lt(c, bound) == ~isna(c) /\ c.n < 2 * bound
gt(c, bound) == ~isna(c) /\ c.n > 2 * bound
\* the comparison of exp_gt_age with >= in place of >
cell_ge(a, b) == ~isna(a) /\ ~isna(b) /\ a.n >= b.n

cell_gt(a, b) == ~isna(a) /\ ~isna(b) /\ a.n > b.n

\* comparing a text with a number raises TypeError
holds_text(df, name) ==
    HasColumn(df, name) /\ \E i \in Rows(df) : isstr(df.data[i][col_of(df, name)])

domain_rules_raise(df) ==
    \/ holds_text(df, "age")
    \/ HasColumn(df, "age") /\ holds_text(df, "years_experience")
    \/ holds_text(df, "last_promotion_year")

negative_mask(df, j) == {i \in Rows(df) : lt(df.data[i][j], 0)}

domain_keys(df) ==
    {Rule("invalid_age")}
    \cup (IF HasColumn(df, "age") /\ HasColumn(df, "years_experience")
          THEN {Rule("exp_gt_age")} ELSE {})
    \cup (IF HasColumn(df, "last_promotion_year") THEN {Rule("future_year")} ELSE {})
    \cup {Negative(df.columns[j]) : j \in {n \in numeric_cols(df) : negative_mask(df, n) # {}}}

domain_issues_of(df, year) ==
    [key \in domain_keys(df) |->
        IF key = Rule("invalid_age")
        THEN (IF HasColumn(df, "age")
              THEN index_of(df, {i \in Rows(df) :
                        \/ lt(df.data[i][col_of(df, "age")], 18)
                        \/ gt(df.data[i][col_of(df, "age")], 70)})
              ELSE <<>>)
        ELSE IF key = Rule("exp_gt_age")
        THEN index_of(df, {i \in Rows(df) :
                cell_gt(df.data[i][col_of(df, "years_experience")],
                        df.data[i][col_of(df, "age")])})
        ELSE IF key = Rule("future_year")
        THEN index_of(df, {i \in Rows(df) :
                gt(df.data[i][col_of(df, "last_promotion_year")], year)})
        ELSE index_of(df, negative_mask(df, col_of(df, key.col)))]

\* 6. IsolationForest.fit_predict needs at least one sample
runs_isolation_forest(df) == Cardinality(numeric_cols(df)) >= 2
isolation_forest_raises(df) == runs_isolation_forest(df) /\ nrows(df) = 0

anomalies_raise(df) == domain_rules_raise(df) \/ isolation_forest_raises(df)

\* the scores of the isolation forest are not modelled: the report records
\* whether anomaly_indices was computed
anomalies_of(df, year) ==
    [outliers |-> outliers_of(df),
     invalid_values |-> invalid_values_of(df),
     missing_values |-> missing_census(df),
     domain_anomalies |-> domain_issues_of(df, year),
     duplicates |-> Cardinality(duplicated_keep_false(df)),
     rows_with_duplicates |-> index_of(df, duplicated_keep_false(df)),
     anomaly_indices |-> [scored |-> runs_isolation_forest(df)],
     summary |-> "Advanced anomaly detection completed."]

(***************************************************************************)
(* Chart descriptors of create_visualizations_node.                        *)
(***************************************************************************)
first_names(df, J, n) ==
    LET p == Ascending(J)
    IN  [i \in 1..(IF Len(p) < n THEN Len(p) ELSE n) |-> df.columns[p[i]]]

visualizations_of(df) ==
    LET num == first_names(df, numeric_cols(df), 3)
        cat == first_names(df, object_cols(df), 1)
    IN  [i \in 1..Len(num) |-> [type |-> "histogram", column |-> num[i]]]
        \o (IF Cardinality(numeric_cols(df)) > 1
            THEN <<[type |-> "correlation", column |-> ""]>> ELSE <<>>)
        \o [i \in 1..Len(cat) |-> [type |-> "bar_chart", column |-> cat[i]]]
        \o (IF Cardinality(numeric_cols(df)) >= 2
            THEN <<[type |-> "scatter", column |-> ""]>> ELSE <<>>)

(***************************************************************************)
(* The run state (AgentState).  It is a function from the keys that are    *)
(* set to their values; reading a key that is not set raises KeyError.     *)
(***************************************************************************)
Has(st, key) == key \in DOMAIN st
Put(st, key, val) == (key :> val) @@ st

\* state.get("errors", []) + [message]
with_error(st, message) ==
    Put(st, "errors", (IF Has(st, "errors") THEN st.errors ELSE <<>>) \o <<message>>)

\* channels declared Annotated[..., operator.add]: an update is added to
\* the channel's value; every other channel takes the update
ReducerKeys == {"visualizations", "errors"}

apply_update(channels, update) ==
    [key \in DOMAIN channels \cup DOMAIN update |->
        IF key \notin DOMAIN update THEN channels[key]
        ELSE IF key \in ReducerKeys /\ key \in DOMAIN channels
             THEN channels[key] \o update[key]
        ELSE update[key]]

NowYear == 2026

(***************************************************************************)
(* The nodes, as functions from the state they receive to the state they   *)
(* return.  `fault` is an exception raised by the environment inside the   *)
(* node's try block ("none" when there is none).                           *)
(***************************************************************************)
cleaned_name(f) == <<"cleaned_", f.name>>

clean_data_raises(f, fault) == fault # "none" \/ load_raises(f)

\* the except block without its assignment of the status
clean_data_node_keeps_status(st, f, fault) ==
    IF fault = "load" \/ load_raises(f)
    THEN with_error(st, "Data cleaning error")
    ELSE IF fault = "save"
    THEN with_error(Put(st, "raw_data", load_data(f)), "Data cleaning error")
    ELSE Put(Put(Put(Put(st,
            "raw_data", load_data(f)),
            "cleaned_data", cleaned_of(load_data(f))),
            "cleaning_report", cleaning_report_of(load_data(f), cleaned_name(f))),
            "status", "cleaning_completed")

clean_data_node(st, f, fault) ==
    IF fault = "load" \/ load_raises(f)
    THEN Put(with_error(st, "Data cleaning error"), "status", "failed")
    ELSE IF fault = "save"
    THEN Put(with_error(Put(st, "raw_data", load_data(f)), "Data cleaning error"),
             "status", "failed")
    ELSE Put(Put(Put(Put(st,
            "raw_data", load_data(f)),
            "cleaned_data", cleaned_of(load_data(f))),
            "cleaning_report", cleaning_report_of(load_data(f), cleaned_name(f))),
            "status", "cleaning_completed")

generate_statistics_raises(st, fault) ==
    ~Has(st, "cleaned_data") \/ fault # "none"

generate_statistics_node(st, fault) ==
    IF generate_statistics_raises(st, fault)
    THEN with_error(st, "Statistics generation error")
    ELSE Put(Put(st, "statistics", statistics_of(st.cleaned_data)),
             "status", "statistics_completed")

detect_anomalies_raises(st) ==
    ~Has(st, "cleaned_data") \/ anomalies_raise(st.cleaned_data)

\* fillna(0) on the numeric columns, as written into the table itself
fillna_zero(df) ==
    [df EXCEPT !.data =
        [i \in Rows(df) |->
            [j \in Cols(df) |->
                IF j \in numeric_cols(df) /\ isna(df.data[i][j])
                THEN Num(0) ELSE df.data[i][j]]]]

\* the node working on state["cleaned_data"] itself, without .copy()
detect_anomalies_node_inplace(st) ==
    IF detect_anomalies_raises(st)
    THEN with_error(st, "Anomaly detection error")
    ELSE Put(Put(Put(st, "anomalies", anomalies_of(st.cleaned_data, NowYear)),
                 "cleaned_data",
                 IF runs_isolation_forest(st.cleaned_data)
                 THEN fillna_zero(st.cleaned_data) ELSE st.cleaned_data),
             "status", "anomaly_detection_completed")

detect_anomalies_node(st) ==
    IF detect_anomalies_raises(st)
    THEN with_error(st, "Anomaly detection error")
    ELSE Put(Put(st, "anomalies", anomalies_of(st.cleaned_data, NowYear)),
             "status", "anomaly_detection_completed")

create_visualizations_raises(st, fault) ==
    ~Has(st, "cleaned_data") \/ fault # "none"

create_visualizations_node(st, fault) ==
    IF create_visualizations_raises(st, fault)
    THEN with_error(st, "Visualization error")
    ELSE Put(Put(st, "visualizations",
                 (IF Has(st, "visualizations") THEN st.visualizations ELSE <<>>)
                 \o visualizations_of(st.cleaned_data)),
             "status", "visualizations_completed")

\* llm is the outcome of llm.invoke: "ok", "quota" (an error whose message
\* names 402, 404, Insufficient Balance, insufficient_quota or Not Found)
\* or "error" (any other exception)
insights_key_error(st) ==
    ~Has(st, "statistics") \/ ~Has(st, "anomalies") \/ ~Has(st, "cleaning_report")

generate_insights_raises(st, llm) == insights_key_error(st) \/ llm = "error"

\* the templated report: the numbers and the summary its lines are built from
generate_mock_insights(stats, anomalies) ==
    [mode |-> "mock",
     rows |-> stats.shape[1],
     columns |-> stats.shape[2],
     numeric |-> Cardinality(DOMAIN stats.numeric_summary),
     categorical |-> Cardinality(DOMAIN stats.categorical_summary),
     summary |-> anomalies.summary]

\* response.content of the model
llm_content == [mode |-> "llm"]

\* the except block without its test for 402, 404 and the quota messages
generate_insights_node_no_fallback(st, llm) ==
    IF insights_key_error(st)
    THEN with_error(st, "Insights generation error")
    ELSE IF llm = "ok"
    THEN Put(Put(st, "insights", llm_content), "status", "insights_completed")
    ELSE with_error(st, "Insights generation error")

generate_insights_node(st, llm) ==
    IF insights_key_error(st)
    THEN with_error(st, "Insights generation error")
    ELSE IF llm = "ok"
    THEN Put(Put(st, "insights", llm_content), "status", "insights_completed")
    ELSE IF llm = "quota"
    THEN Put(Put(st, "insights", generate_mock_insights(st.statistics, st.anomalies)),
             "status", "insights_completed")
    ELSE with_error(st, "Insights generation error")

generate_sql_raises(st, fault) ==
    ~Has(st, "cleaned_data") \/ ~Has(st, "filename") \/ fault # "none"

generate_sql_node(st, fault) ==
    IF generate_sql_raises(st, fault)
    THEN with_error(st, "SQL generation error")
    ELSE Put(Put(st, "sql_queries", <<"sql", st.filename>>), "status", "completed")

(***************************************************************************)
(* The workflow of create_analysis_graph: entry point and edges.           *)
(***************************************************************************)
EntryPoint == "clean_data"

\* the edges with the statistics and the anomaly stage exchanged
Edge_exchanged ==
    [clean_data            |-> "detect_anomalies",
     detect_anomalies      |-> "generate_statistics",
     generate_statistics   |-> "create_visualizations",
     create_visualizations |-> "generate_insights",
     generate_insights     |-> "generate_sql",
     generate_sql          |-> "END"]

Edge ==
    [clean_data            |-> "generate_statistics",
     generate_statistics   |-> "detect_anomalies",
     detect_anomalies      |-> "create_visualizations",
     create_visualizations |-> "generate_insights",
     generate_insights     |-> "generate_sql",
     generate_sql          |-> "END"]

(***************************************************************************)
(* The files of the model.  Generic files have the columns age and salary  *)
(* and up to MaxRows rows over small cell domains (numbers, a text that    *)
(* parses as a number, texts that do not, empty cells); Scenario is the    *)
(* end-to-end table of three rows.                                         *)
(***************************************************************************)
AgeCells == {NaN, Num(25), Num(200), Str(<<"a", "b", "c">>)}
SalaryCells == {NaN, Num(0 - 10), Str(<<"-", "1", "0">>), Str(<<" ", "N", "U", "L", "L">>)}

GenericRows == {<<a, s>> : a \in AgeCells, s \in SalaryCells}

GenericFiles ==
    {[name |-> "data.xlsx", ext |-> "xlsx", format |-> "workbook",
      columns |-> <<"age", "salary">>, grid |-> g] :
        g \in UNION {[1..n -> GenericRows] : n \in 0..MaxRows}}

Scenario ==
    [name |-> "employees.csv", ext |-> "csv", format |-> "text",
     columns |-> <<"age", "years_experience", "salary">>,
     grid |-> << <<Num(25), Num(3), Num(50000)>>,
                 <<Num(25), Num(3), Num(50000)>>,
                 <<Num(200), Num(1), Num(0 - 10)>> >>]

\* files with the columns age and years_experience
ExperienceRows ==
    {<<Num(30), Num(35)>>, <<Num(30), Num(30)>>, <<Num(40), Num(10)>>, <<NaN, Num(35)>>}

ExperienceFiles ==
    {[name |-> "staff.csv", ext |-> "csv", format |-> "text",
      columns |-> <<"age", "years_experience">>, grid |-> g] :
        g \in UNION {[1..n -> ExperienceRows] : n \in 1..MaxRows}}

\* a file whose salary column has one value far from the others
OutlierFile ==
    [name |-> "payroll.csv", ext |-> "csv", format |-> "text",
     columns |-> <<"age", "salary">>,
     grid |-> << <<Num(25), Num(10)>>, <<Num(25), Num(11)>>, <<Num(25), Num(12)>>,
                 <<Num(25), Num(13)>>, <<Num(25), Num(100)>> >>]

\* a file with a text column and a column of True / False
FlagsFile ==
    [name |-> "teams.csv", ext |-> "csv", format |-> "text",
     columns |-> <<"dept", "active">>,
     grid |-> << <<Str(<<"h", "r">>), Bool(TRUE)>>,
                 <<Str(<<"i", "t">>), Bool(FALSE)>>,
                 <<Str(<<"i", "t">>), Bool(TRUE)>> >>]

\* a file of 26 rows whose salary column has 12 values off the common
\* one, alternating above and below it in the first 12 rows
ManyOutliersFile ==
    [name |-> "ledger.csv", ext |-> "csv", format |-> "text",
     columns |-> <<"id", "salary">>,
     grid |-> [i \in 1..26 |->
                 <<Num(i),
                   Num(IF i > 12 THEN 50
                       ELSE IF i % 2 = 1 THEN 100 + (i + 1) \div 2
                       ELSE i \div 2)>>]]

\* a file with an empty row between two equal rows
GapsFile ==
    [name |-> "gaps.csv", ext |-> "csv", format |-> "text",
     columns |-> <<"age", "salary">>,
     grid |-> << <<Num(25), Num(0 - 10)>>, <<NaN, NaN>>,
                 <<Num(25), Num(0 - 10)>>, <<Num(200), NaN>> >>]

Files ==
    GenericFiles \cup ExperienceFiles \cup
    {Scenario, OutlierFile, FlagsFile, ManyOutliersFile, GapsFile}

\* file paths handed to the graph directly: any extension, either content
Extensions == {"csv", "xlsx", "xls", "dat"}

PathName == [e \in Extensions |->
                IF e = "csv" THEN "table.csv"
                ELSE IF e = "xlsx" THEN "table.xlsx"
                ELSE IF e = "xls" THEN "table.xls"
                ELSE "table.dat"]

LoaderFiles ==
    {[name |-> PathName[e], ext |-> e, format |-> fm,
      columns |-> <<"age", "salary">>, grid |-> g] :
        e \in Extensions, fm \in {"text", "workbook"},
        g \in UNION {[1..n -> GenericRows] : n \in 0..1}}

DatasetId == 1

InitWith(files) ==
    /\ file \in files
    /\ pc = "start"
    /\ state = [status |-> "none"]
    /\ analysis = [status |-> "none", error_message |-> <<>>,
                   saved |-> <<>>, visualizations |-> <<>>]
    /\ response = 0
    /\ executed = <<>>
    /\ raised = {}
    /\ faults = 0
    /\ llm_result = "none"
    /\ clock = 0
    /\ datasets = <<>>
    /\ disk = {}
    /\ written = {}
    /\ reports = {}

Init == InitWith(Files)

LoaderInit == InitWith(LoaderFiles)

(***************************************************************************)
(* analyze_dataset, up to the invocation of the graph.                     *)
(***************************************************************************)
initial_state(f) ==
    [dataset_id |-> DatasetId, file_path |-> <<"uploads", f.name>>, filename |-> f.name,
     visualizations |-> <<>>, errors |-> <<>>, status |-> "processing"]

AnalyzeStart ==
    /\ pc = "start"
    /\ \E dataset_id \in {DatasetId, DatasetId + 1} :
        IF dataset_id # DatasetId
        THEN /\ response' = 404
             /\ pc' = "done"
             /\ UNCHANGED <<state, analysis>>
        ELSE /\ analysis' = [analysis EXCEPT !.status = "processing"]
             /\ state' = initial_state(file)
             /\ pc' = EntryPoint
             /\ UNCHANGED response
    /\ UNCHANGED <<file, executed, raised, faults, llm_result>>
    /\ UNCHANGED upload_vars

(***************************************************************************)
(* One step of the graph: the node at pc receives the state, and what it   *)
(* returns is applied to the channels.                                     *)
(***************************************************************************)
Raise(fault) ==
    /\ fault # "none" => faults < MaxFaults
    /\ faults' = IF fault # "none" THEN faults + 1 ELSE faults

Step(node, returned, failed) ==
    /\ pc = node
    /\ state' = apply_update(state, returned)
    /\ pc' = Edge[node]
    /\ executed' = Append(executed, node)
    /\ raised' = IF failed THEN raised \cup {node} ELSE raised
    /\ UNCHANGED <<file, analysis, response>>
    /\ UNCHANGED upload_vars

CleanData ==
    \E fault \in {"none", "load", "save"} :
        /\ Raise(fault)
        /\ Step("clean_data", clean_data_node(state, file, fault), clean_data_raises(file, fault))
        /\ UNCHANGED llm_result

GenerateStatistics ==
    \E fault \in {"none", "raise"} :
        /\ Raise(fault)
        /\ Step("generate_statistics", generate_statistics_node(state, fault),
                generate_statistics_raises(state, fault))
        /\ UNCHANGED llm_result

DetectAnomalies ==
    /\ Step("detect_anomalies", detect_anomalies_node(state),
            detect_anomalies_raises(state))
    /\ UNCHANGED <<faults, llm_result>>

CreateVisualizations ==
    \E fault \in {"none", "raise"} :
        /\ Raise(fault)
        /\ Step("create_visualizations", create_visualizations_node(state, fault),
                create_visualizations_raises(state, fault))
        /\ UNCHANGED llm_result

GenerateInsights ==
    \E llm \in {"ok", "quota", "error"} :
        /\ Raise(IF llm = "ok" THEN "none" ELSE llm)
        /\ Step("generate_insights", generate_insights_node(state, llm),
                generate_insights_raises(state, llm))
        /\ llm_result' = IF insights_key_error(state) THEN "none" ELSE llm

GenerateSql ==
    \E fault \in {"none", "raise"} :
        /\ Raise(fault)
        /\ Step("generate_sql", generate_sql_node(state, fault),
                generate_sql_raises(state, fault))
        /\ UNCHANGED llm_result

(***************************************************************************)
(* analyze_dataset, after the graph has returned its final state.          *)
(***************************************************************************)
get(st, key) == IF Has(st, key) THEN st[key] ELSE "None"

failed_analysis(a, result) ==
    [a EXCEPT !.status = "failed", !.error_message = result.errors]

completed_analysis(a, result) ==
    [a EXCEPT
        !.saved = [cleaned_data_info |-> get(result, "cleaning_report"),
                   statistics        |-> get(result, "statistics"),
                   anomalies         |-> get(result, "anomalies"),
                   insights          |-> get(result, "insights"),
                   sql_queries       |-> get(result, "sql_queries")],
        !.status = "completed",
        !.visualizations = [i \in 1..Len(result.visualizations) |->
                               result.visualizations[i].type]]

\* except Exception: the record as committed so far is marked failed
unexpected_failure(a) ==
    [a EXCEPT !.status = "failed", !.error_message = <<"Unexpected exception">>]

\* `fault` is an exception other than HTTPException raised inside the try
\* block: "invoke" by analysis_graph.invoke, "save" by the commit of the
\* results (which rolls them back), "visualizations" while the
\* Visualization rows are saved, after the results are committed
AnalyzeFinish ==
    /\ pc = "END"
    /\ \E fault \in {"none", "invoke", "save", "visualizations"} :
        /\ Raise(fault)
        /\ IF fault = "invoke"
           THEN /\ analysis' = unexpected_failure(analysis)
                /\ response' = 500
           ELSE IF state.errors # <<>>
           THEN /\ analysis' = failed_analysis(analysis, state)
                /\ response' = 500
           ELSE IF fault = "save"
           THEN /\ analysis' = unexpected_failure(analysis)
                /\ response' = 500
           ELSE IF fault = "visualizations"
           THEN /\ analysis' = unexpected_failure(
                                   [completed_analysis(analysis, state)
                                       EXCEPT !.visualizations = <<>>])
                /\ response' = 500
           ELSE /\ analysis' = completed_analysis(analysis, state)
                /\ response' = 200
    /\ pc' = "done"
    /\ UNCHANGED <<file, state, executed, raised, llm_result>>
    /\ UNCHANGED upload_vars

Next ==
    \/ AnalyzeStart
    \/ CleanData
    \/ GenerateStatistics
    \/ DetectAnomalies
    \/ CreateVisualizations
    \/ GenerateInsights
    \/ GenerateSql
    \/ AnalyzeFinish

Spec == Init /\ [][Next]_vars

(***************************************************************************)
(* Uploads and runs for several datasets.  upload_file stores the file     *)
(* under a name made of the time to the second and the client's file name; *)
(* a run reads the file at its dataset's path, writes the cleaned file     *)
(* next to it and one image per chart.                                     *)
(***************************************************************************)
run_vars == <<file, pc, state, analysis, response, executed, raised, faults, llm_result>>

FileNames == {"a.csv", "b.csv"}

UploadContents ==
    {[columns |-> <<"age", "salary">>, grid |-> << <<Num(25), Num(0 - 10)>> >>],
     [columns |-> <<"age", "salary">>, grid |-> << <<Num(200), NaN>> >>]}

\* os.path.join(UPLOAD_DIR, f"{timestamp}_{file.filename}")
upload_path(timestamp, filename) ==
    [dir |-> "uploads", prefix |-> "", dataset_id |-> 0, column |-> "",
     timestamp |-> timestamp, name |-> filename]

\* os.path.join(os.path.dirname(file_path), f"cleaned_{basename}")
cleaned_path(file_path) == [file_path EXCEPT !.prefix = "cleaned_"]

\* os.path.join(VIZ_DIR, f"{type}_{dataset_id}_{col}_{timestamp}.png")
chart_path(viz, dataset_id, timestamp) ==
    [dir |-> "visualizations", prefix |-> viz.type, dataset_id |-> dataset_id,
     column |-> viz.column, timestamp |-> timestamp, name |-> ".png"]

\* open(path, "wb"): the file at the path is replaced
write(files, path, content) ==
    {e \in files : e.path # path} \cup {[path |-> path, content |-> content]}

read(files, path) == (CHOOSE e \in files : e.path = path).content

\* the file a run finds at a dataset's path
stored_file(content, file_path) ==
    [name |-> [timestamp |-> file_path.timestamp, filename |-> file_path.name],
     ext |-> "csv", format |-> "text",
     columns |-> content.columns, grid |-> content.grid]

Tick ==
    /\ clock < MaxClock
    /\ clock' = clock + 1
    /\ UNCHANGED <<datasets, disk, written, reports>>
    /\ UNCHANGED run_vars

Upload ==
    \E filename \in FileNames, content \in UploadContents :
        LET file_path == upload_path(clock, filename)
        IN  /\ Len(datasets) < MaxUploads
            /\ disk' = write(disk, file_path, content)
            /\ datasets' = Append(datasets, [file_path |-> file_path,
                                             original_filename |-> filename,
                                             uploaded |-> content])
            /\ written' = written \cup
                    {[path |-> file_path, dataset_id |-> Len(datasets) + 1]}
            /\ UNCHANGED <<clock, reports>>
            /\ UNCHANGED run_vars

HasRun(dataset_id) == \E r \in reports : r.dataset_id = dataset_id

\* clean_data_node of the run for one dataset
RunCleanData ==
    \E dataset_id \in 1..Len(datasets) :
        LET file_path == datasets[dataset_id].file_path
            f == stored_file(read(disk, file_path), file_path)
        IN  /\ ~HasRun(dataset_id)
            /\ disk' = write(disk, cleaned_path(file_path), cleaned_of(load_data(f)))
            /\ written' = written \cup
                    {[path |-> cleaned_path(file_path), dataset_id |-> dataset_id]}
            /\ reports' = reports \cup
                    {[dataset_id |-> dataset_id,
                      cleaning_report |-> cleaning_report_of(load_data(f), cleaned_name(f)),
                      cleaned_data |-> cleaned_of(load_data(f)),
                      charts |-> FALSE]}
            /\ UNCHANGED <<clock, datasets>>
            /\ UNCHANGED run_vars

\* create_visualizations_node of the run for one dataset
RunCreateVisualizations ==
    \E r \in reports :
        LET charts == visualizations_of(r.cleaned_data)
        IN  /\ ~r.charts
            /\ written' = written \cup
                    {[path |-> chart_path(charts[i], r.dataset_id, clock),
                      dataset_id |-> r.dataset_id] : i \in 1..Len(charts)}
            /\ reports' = (reports \ {r}) \cup {[r EXCEPT !.charts = TRUE]}
            /\ UNCHANGED <<clock, datasets, disk>>
            /\ UNCHANGED run_vars

UploadInit == InitWith({Scenario})

UploadNext ==
    \/ Tick
    \/ Upload
    \/ RunCleanData
    \/ RunCreateVisualizations

UploadSpec == UploadInit /\ [][UploadNext]_vars

\* A step as the control flow sees it: the handler enters the graph or
\* answers, the graph follows the edge of the node it ran, the handler
\* returns.  Every step of Next is such a step, and one is possible
\* exactly when a step of Next is.
Scheduled ==
    \/ pc = "start" /\ pc' \in {EntryPoint, "done"}
    \/ pc \in DOMAIN Edge /\ pc' = Edge[pc]
    \/ pc = "END" /\ pc' = "done"

\* graph.invoke runs the nodes one after the other until END, and the
\* request handler then runs to its return: no step waits for anything
FairSpec == Spec /\ WF_pc(Scheduled)

\* the graph run on a path of any extension
LoaderSpec == LoaderInit /\ [][Next]_vars

(***************************************************************************)
(* Properties.                                                             *)
(***************************************************************************)
GraphEnded == pc \in {"END", "done"} /\ executed # <<>>

Contains(seq, x) == \E i \in 1..Len(seq) : seq[i] = x

Downstream ==
    {"generate_statistics", "detect_anomalies", "create_visualizations",
     "generate_insights", "generate_sql"}

\* C1: when the Cleaner fails, the final state of the run has status
\* `failed`, its error list holds the cleaning error, and no cleaning
\* report, statistics or anomaly report is present; the Analysis record
\* ends `failed` with no report stored.
C1_CleanerFailureIsFinal ==
    (GraphEnded /\ "clean_data" \in raised) =>
        /\ state.status = "failed"
        /\ Contains(state.errors, "Data cleaning error")
        /\ ~Has(state, "cleaning_report")
        /\ ~Has(state, "statistics")
        /\ ~Has(state, "anomalies")
        /\ pc = "done" => (analysis.status = "failed" /\ DOMAIN analysis.saved = {})

C1_Witness ==
    /\ pc = "done"
    /\ "clean_data" \in raised
    /\ Len(executed) = 6
    /\ Has(state, "raw_data")

\* C2: after a Cleaner failure no downstream stage is executed in the run.
C2_DownstreamSkipped ==
    "clean_data" \in raised => \A i \in 1..Len(executed) : executed[i] \notin Downstream

\* The only failure of the run is the Statistics stage or the Anomaly
\* Detector: the Cleaner succeeded, exactly one of the two raised, and the
\* environment raised nothing else.
OnlyRecoverableFailure ==
    /\ pc = "done"
    /\ Len(executed) = 6
    /\ raised \cap {"clean_data", "create_visualizations", "generate_sql"} = {}
    /\ Cardinality(raised \cap {"generate_statistics", "detect_anomalies"}) = 1
    /\ faults = IF "generate_statistics" \in raised THEN 1 ELSE 0

\* C3: when only the Statistics stage or the Anomaly Detector fails, the
\* failure is in the error list, the sibling stage has published its
\* report, and the run is reported `completed` with the error list.
C3_RecoverableFailureCompletes ==
    OnlyRecoverableFailure =>
        /\ state.errors # <<>>
        /\ "generate_statistics" \in raised =>
              /\ Contains(state.errors, "Statistics generation error")
              /\ Has(state, "anomalies")
        /\ "detect_anomalies" \in raised =>
              /\ Contains(state.errors, "Anomaly detection error")
              /\ Has(state, "statistics")
        /\ state.status = "completed"
        /\ analysis.status = "completed"

\* some check other than the domain rules and the isolation forest has a
\* finding on df
OtherChecksFind(df) ==
    \/ DOMAIN missing_census(df) # {}
    \/ DOMAIN invalid_values_of(df) # {}
    \/ DOMAIN outliers_of(df) # {}
    \/ duplicated_keep_false(df) # {}

\* C4: when one check of the Anomaly Detector fails (here the domain rules
\* or the multivariate check) while other checks have findings, the
\* AnomalyReport is still published and holds the findings of every
\* other check.
C4_FailedCheckIsLocal ==
    (/\ "detect_anomalies" \in raised
     /\ Has(state, "cleaned_data")
     /\ domain_rules_raise(state.cleaned_data) # isolation_forest_raises(state.cleaned_data)
     /\ OtherChecksFind(state.cleaned_data))
    =>
        /\ Has(state, "anomalies")
        /\ state.anomalies.missing_values = missing_census(state.cleaned_data)
        /\ state.anomalies.duplicates = Cardinality(duplicated_keep_false(state.cleaned_data))
        /\ state.anomalies.invalid_values = invalid_values_of(state.cleaned_data)
        /\ state.anomalies.outliers = outliers_of(state.cleaned_data)

\* C5: the Cleaner run on its own output removes no row and reports the
\* shape of the first output.
C5_CleanerIdempotent ==
    Has(state, "cleaning_report") =>
        LET again == cleaning_report_of(state.cleaned_data, "again")
        IN  /\ again.rows_removed = 0
            /\ again.cleaned_shape = state.cleaning_report.cleaned_shape

\* C6: after a successful Cleaner run no cell of the cleaned table is null.
C6_ImputationTotal ==
    Has(state, "cleaned_data") =>
        \A i \in Rows(state.cleaned_data) : \A j \in Cols(state.cleaned_data) :
            ~isna(state.cleaned_data.data[i][j])

\* C7: in every cleaning report the cleaned row count is at most the
\* original row count, rows_removed is their difference, and the column
\* count of original_shape and cleaned_shape is the same.
C7_ShapeAccounting ==
    Has(state, "cleaning_report") =>
        LET r == state.cleaning_report
        IN  /\ r.cleaned_shape[1] <= r.original_shape[1]
            /\ r.rows_removed = r.original_shape[1] - r.cleaned_shape[1]
            /\ r.cleaned_shape[2] = r.original_shape[2]
            /\ r.original_shape[1] = Cardinality({i \in 1..Len(file.grid) :
                    \E j \in 1..Len(file.columns) : ~isna(file.grid[i][j])})
            /\ r.cleaned_shape = shape(state.cleaned_data)

C7_Witness ==
    /\ Has(state, "cleaning_report")
    /\ state.cleaning_report.rows_removed > 0
    /\ state.cleaning_report.cleaned_shape[1] >= 1

\* a cell of the input whose trimmed text is NULL, in any letter case
IsNullText(c) == isstr(c) /\ lower(strip(c.s)) = <<"n", "u", "l", "l">>

\* C8: every input cell whose trimmed text is NULL is reported under
\* invalid_values for its column by the Anomaly Detector.
C8_NullSentinelFlagged ==
    Has(state, "anomalies") =>
        \A i \in 1..Len(file.grid) : \A j \in 1..Len(file.columns) :
            IsNullText(file.grid[i][j]) =>
                /\ file.columns[j] \in DOMAIN state.anomalies.invalid_values
                /\ \E k \in 1..Len(state.anomalies.invalid_values[file.columns[j]]) :
                       IsNullText(state.anomalies.invalid_values[file.columns[j]][k])

\* C9: the duplicate count of the AnomalyReport is the number of input rows
\* that belong to a duplicate group, which is 2 for the scenario table.
C9_DuplicatesCountAllOccurrences ==
    Has(state, "anomalies") =>
        /\ state.anomalies.duplicates
              = Cardinality(duplicated_keep_false(prepare(load_data(file))))
        /\ file = Scenario => state.anomalies.duplicates = 2

\* the flag of a domain rule on the input row at position i (from 1)
InputNegative(name, i) ==
    LET c == to_numeric(file.grid[i][col_of(load_data(file), name)])
    IN  ~isna(c) /\ c.n < 0

InputAgeInvalid(i) ==
    /\ HasColumn(load_data(file), "age")
    /\ LET c == to_numeric(file.grid[i][col_of(load_data(file), "age")])
       IN  ~isna(c) /\ (c.n < 2 * 18 \/ c.n > 2 * 70)

Survives(i) == Contains(state.cleaned_data.index, i - 1)

Imputed(name, i) ==
    isna(to_numeric(file.grid[i][col_of(load_data(file), name)]))

\* C10: the row indices of domain_anomalies are positions in the input
\* table: a listed index is the position of an input row that breaks the
\* rule (or whose cell was imputed), every surviving input row that breaks
\* the rule is listed under its position, and for the scenario table both
\* negative_salary and the age rule list exactly the third row.
C10_IndicesAreInputPositions ==
    Has(state, "anomalies") =>
        LET issues == state.anomalies.domain_anomalies
        IN  /\ \A key \in DOMAIN issues : \A k \in 1..Len(issues[key]) :
                   /\ issues[key][k] + 1 \in 1..Len(file.grid)
                   /\ Survives(issues[key][k] + 1)
                   /\ key.rule = "negative" =>
                         \/ InputNegative(key.col, issues[key][k] + 1)
                         \/ Imputed(key.col, issues[key][k] + 1)
                   /\ key.rule = "invalid_age" =>
                         \/ InputAgeInvalid(issues[key][k] + 1)
                         \/ Imputed("age", issues[key][k] + 1)
            /\ \A i \in 1..Len(file.grid) : \A j \in 1..Len(file.columns) :
                   (Survives(i) /\ InputNegative(file.columns[j], i)) =>
                       /\ Negative(file.columns[j]) \in DOMAIN issues
                       /\ Contains(issues[Negative(file.columns[j])], i - 1)
            /\ \A i \in 1..Len(file.grid) :
                   (Survives(i) /\ InputAgeInvalid(i)) =>
                       Contains(issues[Rule("invalid_age")], i - 1)
            /\ file = Scenario =>
                   /\ issues[Negative("salary")] = <<2>>
                   /\ issues[Rule("invalid_age")] = <<2>>

C10_Witness ==
    /\ Has(state, "anomalies")
    /\ state.cleaned_data.index # [i \in 1..Len(state.cleaned_data.index) |-> i - 1]
    /\ \E key \in DOMAIN state.anomalies.domain_anomalies :
           /\ key.rule = "negative"
           /\ \E k \in 1..Len(state.anomalies.domain_anomalies[key]) :
                  state.anomalies.domain_anomalies[key][k] >= 1

\* the cleaned cell of column `name` in the row at position p of df
Value(df, name, p) == df.data[p][col_of(df, name)]

\* C11: when the cleaned table has the columns age and years_experience,
\* exp_gt_age lists exactly the indices of the rows whose years_experience
\* is strictly greater than their age, each once (so an input row with
\* age 30 and years_experience 35 is listed and a row with equal values is
\* not); when a column is absent the key is absent.
C11_ExpGtAgeExact ==
    Has(state, "anomalies") =>
        LET df == state.cleaned_data
            issues == state.anomalies.domain_anomalies
            key == Rule("exp_gt_age")
        IN  IF HasColumn(df, "age") /\ HasColumn(df, "years_experience")
            THEN /\ key \in DOMAIN issues
                 /\ \A p \in Rows(df) :
                        Contains(issues[key], df.index[p])
                        <=> /\ ~isna(Value(df, "age", p))
                            /\ ~isna(Value(df, "years_experience", p))
                            /\ Value(df, "years_experience", p).n > Value(df, "age", p).n
                 /\ \A a, b \in 1..Len(issues[key]) :
                        issues[key][a] = issues[key][b] => a = b
                 /\ \A k \in 1..Len(issues[key]) :
                        \E p \in Rows(df) : df.index[p] = issues[key][k]
                 /\ \A i \in 1..Len(file.grid) :
                        Survives(i) =>
                            /\ file.grid[i] = <<Num(30), Num(35)>> =>
                                   Contains(issues[key], i - 1)
                            /\ file.grid[i] = <<Num(30), Num(30)>> =>
                                   ~Contains(issues[key], i - 1)
            ELSE key \notin DOMAIN issues

C11_Witness ==
    /\ Has(state, "anomalies")
    /\ Rule("exp_gt_age") \in DOMAIN state.anomalies.domain_anomalies
    /\ state.anomalies.domain_anomalies[Rule("exp_gt_age")] = <<1>>
    /\ file.grid = << <<Num(30), Num(30)>>, <<Num(30), Num(35)>> >>

\* fence multipliers in halves: 0, 0.5, 1, 1.5, 2, 3
Multipliers == {0, 1, 2, 3, 4, 6}

\* C12: for every numeric column of the cleaned table and every pair of
\* multipliers k1 <= k2, the rows flagged with the fences of k2 are a
\* subset of the rows flagged with the fences of k1, and the reported
\* outliers of the column are those of the multiplier 1.5.
C12_IqrMonotone ==
    Has(state, "anomalies") =>
        LET df == state.cleaned_data
            out == state.anomalies.outliers
        IN  \A j \in numeric_cols(df) :
                /\ LET flagged == outlier_mask_k(df, j, 3)
                   IN  IF flagged = {}
                       THEN df.columns[j] \notin DOMAIN out
                       ELSE /\ df.columns[j] \in DOMAIN out
                            /\ out[df.columns[j]].count = Cardinality(flagged)
                \* the fences are compared where the detector has just returned
                /\ pc = Edge["detect_anomalies"] =>
                       \A k1, k2 \in Multipliers :
                           k1 <= k2 =>
                               outlier_mask_k(df, j, k2) \subseteq outlier_mask_k(df, j, k1)

C12_Witness ==
    /\ file = OutlierFile
    /\ Has(state, "anomalies")
    /\ "salary" \in DOMAIN state.anomalies.outliers
    /\ state.anomalies.outliers["salary"].count = 1
    /\ Cardinality(outlier_mask_k(state.cleaned_data, 2, 0)) = 2
    /\ outlier_mask_k(state.cleaned_data, 2, 6) = {5}

Messages(errors) == {errors[i] : i \in 1..Len(errors)}

StageOrder ==
    <<"clean_data", "generate_statistics", "detect_anomalies",
      "create_visualizations", "generate_insights", "generate_sql">>

IsPrefix(s, t) == Len(s) <= Len(t) /\ \A i \in 1..Len(s) : s[i] = t[i]

\* C15: in every run the stages start in the order clean_data,
\* generate_statistics, detect_anomalies, create_visualizations,
\* generate_insights, generate_sql, one at a time and each at most once,
\* without branch or loop; a run that has started runs all six stages, and
\* every request terminates.
C15_FixedOrderTerminates ==
    /\ [](IsPrefix(executed, StageOrder))
    /\ [][executed' # executed =>
            /\ Len(executed') = Len(executed) + 1
            /\ pc = StageOrder[Len(executed')]
            /\ executed' = Append(executed, pc)]_vars
    /\ (pc = EntryPoint) ~> (executed = StageOrder /\ pc = "END")
    /\ <>[](pc = "done")

C15_Witness ==
    /\ pc = "done"
    /\ executed = StageOrder
    /\ response = 200

\* the numeric cells of df that hold no value
NullNumericCells(df) ==
    {<<i, j>> \in Rows(df) \X numeric_cols(df) : isna(df.data[i][j])}

\* C16: the cleaned table published by the Cleaner is never modified by a
\* later stage: once state.cleaned_data is set, every step leaves its
\* cells, its row order, its index and its column order as they are,
\* also the multivariate check, which fills nulls only in its own copy.
C16_CleanedTableImmutable ==
    /\ [](Has(state, "cleaned_data") =>
            state.cleaned_data = cleaned_of(load_data(file)))
    /\ [][Has(state, "cleaned_data") =>
            /\ Has(state', "cleaned_data")
            /\ state'.cleaned_data.data = state.cleaned_data.data
            /\ state'.cleaned_data.columns = state.cleaned_data.columns
            /\ state'.cleaned_data.index = state.cleaned_data.index
            /\ state'.cleaned_data.dtypes = state.cleaned_data.dtypes]_vars

C16_Witness ==
    /\ Contains(executed, "generate_statistics")
    /\ Contains(executed, "detect_anomalies")
    /\ Has(state, "anomalies")
    /\ state.anomalies.anomaly_indices.scored
    /\ NullNumericCells(state.cleaned_data) # {}

\* the entries of the correlation matrix of a statistics report
CorrelationEntries(stats) ==
    {stats.correlations[a][b] :
        a \in DOMAIN stats.correlations, b \in DOMAIN stats.correlations}

\* the numbers of the numeric summary of a statistics report
SummaryNumbers(stats) ==
    UNION {{stats.numeric_summary[c].mean, stats.numeric_summary[c].std,
            stats.numeric_summary[c].min, stats.numeric_summary[c].max} :
               c \in DOMAIN stats.numeric_summary}

\* C17: no NaN leaves the Statistics Summarizer: an entry of the
\* correlation matrix that is undefined because a column has zero variance
\* is null, not NaN, and no number of the numeric summary is NaN.
C17_NoNaNInStatistics ==
    Has(state, "statistics") =>
        /\ \A e \in CorrelationEntries(state.statistics) : ~isna(e)
        /\ \A e \in SummaryNumbers(state.statistics) : ~isna(e)

\* C18: every column of the cleaned table is summarized exactly once: a
\* numeric column in numeric_summary only, every other column (text,
\* boolean) in categorical_summary only, with its count of unique values
\* and at most 5 top values in order of non-increasing frequency.
C18_EveryColumnSummarizedOnce ==
    Has(state, "statistics") =>
        LET df == state.cleaned_data
            num == state.statistics.numeric_summary
            cat == state.statistics.categorical_summary
        IN  \A j \in Cols(df) :
                LET c == df.columns[j]
                IN  IF IsNumericDtype(df.dtypes[j])
                    THEN c \in DOMAIN num /\ c \notin DOMAIN cat
                    ELSE /\ c \in DOMAIN cat /\ c \notin DOMAIN num
                         /\ cat[c].unique_values =
                                Cardinality({df.data[i][j] : i \in Rows(df)}
                                            \ {NaN})
                         /\ Len(cat[c].top_values) <= 5
                         /\ \A r \in 1..(Len(cat[c].top_values) - 1) :
                                cat[c].top_values[r].count
                                    >= cat[c].top_values[r + 1].count

\* whether a cell parses as a number: a number, or a text that is an
\* optional sign followed by digits once trimmed
Parses(c) == c.k = "num" \/ (isstr(c) /\ LooksNumeric(strip(c.s)))

ReportAlone(dataset_id) ==
    LET f == stored_file(datasets[dataset_id].uploaded, datasets[dataset_id].file_path)
    IN  cleaning_report_of(load_data(f), cleaned_name(f))

\* C19: runs for different datasets share no mutable state: no path
\* (uploaded file, cleaned_ file, chart image) is written for two
\* different datasets, and the report of each run is the one the run
\* gives when it executes alone.
C19_RunsShareNoArtifact ==
    /\ \A w1, w2 \in written :
           w1.path = w2.path => w1.dataset_id = w2.dataset_id
    /\ \A r \in reports : r.cleaning_report = ReportAlone(r.dataset_id)

\* C21: the missing counts, the duplicate count and the types of the
\* cleaning report describe the table after the empty rows are dropped,
\* the texts trimmed and the numeric columns coerced, before duplicates
\* are dropped and nulls imputed: a cell nulled by coercion is counted,
\* and so is a null that imputation fills later.  (Stated where the
\* Cleaner has just returned.)
C21_ReportBeforeDedupAndImputation ==
    (pc = Edge["clean_data"] /\ Has(state, "cleaning_report")) =>
        LET df == prepare(state.raw_data)
            report == state.cleaning_report
        IN  /\ \A j \in Cols(df) :
                   /\ report.missing_values[df.columns[j]] =
                          Cardinality({i \in Rows(df) : isna(df.data[i][j])})
                   /\ report.data_types[df.columns[j]] = df.dtypes[j]
                   \* a text that does not parse in a coerced column is counted
                   /\ (state.raw_data.dtypes[j] = "object" /\ IsNumericDtype(df.dtypes[j])) =>
                          report.missing_values[df.columns[j]] >=
                              Cardinality({i \in Rows(state.raw_data) :
                                  /\ isstr(state.raw_data.data[i][j])
                                  /\ ~Parses(state.raw_data.data[i][j])})
            /\ report.duplicates =
                   Cardinality({i \in Rows(df) :
                       \E k \in 1..(i - 1) : df.data[k] = df.data[i]})

C21_Witness ==
    /\ pc = Edge["clean_data"]
    /\ Has(state, "cleaning_report")
    /\ file.grid = << <<Num(25), Str(<<"-", "1", "0">>)>>,
                      <<Num(25), Str(<<" ", "N", "U", "L", "L">>)>> >>
    /\ state.cleaning_report.missing_values["salary"] = 1
    /\ state.cleaning_report.duplicates = 0
    /\ state.cleaned_data.data = << <<Num(25), Num(0 - 10)>>, <<Num(25), Num(0 - 10)>> >>

Occurrences(seq, x) == Cardinality({i \in 1..Len(seq) : seq[i] = x})

\* C23: at the end of the run the accumulated lists hold each item once:
\* the final visualizations list is the list of the charts that
\* create_visualizations produced, one Visualization row is stored per
\* chart, and every failure message occurs once in the final errors list.
C23_ListItemsOnce ==
    GraphEnded =>
        /\ (Contains(executed, "create_visualizations")
                /\ "create_visualizations" \notin raised) =>
               /\ state.visualizations = visualizations_of(state.cleaned_data)
               /\ (pc = "done" /\ analysis.status = "completed") =>
                      Len(analysis.visualizations) =
                          Len(visualizations_of(state.cleaned_data))
        /\ \A message \in Messages(state.errors) :
               Occurrences(state.errors, message) = 1

\* the report fields of the Analysis record are empty
NoReportStored(a) == a.saved = <<>>

\* C24: once the Analysis record exists, the request ends with the record
\* completed or failed, never processing; completed only if the final
\* errors list is empty; and a failed record stores no report field.
C24_RecordSettled ==
    (pc = "done" /\ analysis.status # "none") =>
        /\ analysis.status \in {"completed", "failed"}
        /\ analysis.status = "completed" => state.errors = <<>>
        /\ analysis.status = "failed" => NoReportStored(analysis)

\* the input rows that hold a value in some column
NonEmptyInputRows ==
    {i \in 1..Len(file.grid) : \E j \in 1..Len(file.columns) : ~isna(file.grid[i][j])}

\* C25: after a successful Cleaner run rows_removed equals duplicates:
\* the rows dropped because every cell is null are left out of
\* original_shape and of rows_removed, and imputation changes no row
\* count.  (Stated where the Cleaner has just returned.)
C25_RowsRemovedAreDuplicates ==
    (pc = Edge["clean_data"] /\ Has(state, "cleaning_report")) =>
        LET r == state.cleaning_report
        IN  /\ r.rows_removed = r.duplicates
            /\ r.original_shape[1] = Cardinality(NonEmptyInputRows)
            /\ nrows(state.cleaned_data) = Cardinality(NonEmptyInputRows) - r.duplicates
            /\ nrows(state.cleaned_data) = nrows(drop_duplicates(prepare(state.raw_data)))

C25_Witness ==
    /\ pc = Edge["clean_data"]
    /\ file = GapsFile
    /\ Has(state, "cleaning_report")
    /\ state.cleaning_report.original_shape = <<3, 2>>
    /\ state.cleaning_report.duplicates = 1
    /\ state.cleaning_report.rows_removed = 1
    /\ state.cleaned_data.index = <<0, 3>>
    /\ state.cleaned_data.data[2] = <<Num(200), Num(0 - 10)>>

====
